---- MODULE Spec2Model ----
(***************************************************************************)
(* A model of annotator.py: the evaluation normaliser (eval_numeric,       *)
(* eval_absolute), the move judge (judge_move), the quality classifier     *)
(* (needs_annotation, get_nags), the annotation inserter (add_annotation,  *)
(* var_end_comment) and the game walker (main).                            *)
(*                                                                         *)
(* The move tree is a sequence of node records indexed by node identity;   *)
(* node 1 is game.root().  The engine is a black box: every search answers *)
(* with some best move, some score and some principal variation.  A        *)
(* position is the set of game-end predicates that hold of its board: the  *)
(* final position's comes with the game, the one at the end of an inserted *)
(* branch is drawn when the branch is built.                               *)
(*                                                                         *)
(* Spec is a run of main(); SpecFair is Spec's runs at depth 1 under weak   *)
(* fairness of the next step, for termination; SpecEval and SpecNags call  *)
(* eval_numeric and get_nags on their own, over inputs around every case   *)
(* they distinguish.                                                       *)
(***************************************************************************)
EXTENDS Integers, Sequences, FiniteSets, TLC

VARIABLES
    tree,       \* the game: node id -> [move, parent, variations, comment, nags]
    node,       \* main(): the local `node`
    pc,         \* the position in main() / judge_move()
    caller,     \* which call site of judge_move is active: "final" or "loop"
    board,      \* judge_move(): the move stack of the `board` argument
    info,       \* info_handler.info["score"][1] after the last search
    judgment,   \* the judgment dictionary being built / last returned
    searches,   \* engine.go() calls issued by the current judge_move call
    var_node,   \* add_annotation(): the local `var_node` (end of the branch)
    pos,        \* game-end predicates of the board under examination: the
                \* final position (line 261), then the end of a branch
    judged,     \* the nodes handed to judge_move so far, in order
    depth,      \* the search depth (args.depth, default 12)
    ret         \* the value returned by a directly called pure function

vars == <<tree, node, pc, caller, board, info, judgment, searches,
          var_node, pos, judged, depth, ret>>

----------------------------------------------------------------------------
(* Bounds of the model *)

MaxPly == 2
MaxPvLen == 2
MaxMate == 6
MaxCpStep == 24

(* Program constants *)

max_score == 10000

Moves == {"a", "b"}
NoMove == "none"
NoNode == 0
Root == 1

NAG_BLUNDER == "NAG_BLUNDER"
NAG_MISTAKE == "NAG_MISTAKE"
NAG_DUBIOUS_MOVE == "NAG_DUBIOUS_MOVE"

engine_name == "Stockfish"

Abs(x) == IF x < 0 THEN -x ELSE x
Min(x, y) == IF x < y THEN x ELSE y

----------------------------------------------------------------------------
(* Engine scores: chess.uci.Score(cp, mate), one of the two set, or none *)

Mate(m) == [kind |-> "mate", val |-> m]
Cp(c) == [kind |-> "cp", val |-> c]
NoScore == [kind |-> "none", val |-> 0]

HasScore(score) == score.kind \in {"mate", "cp"}

(* eval_numeric with the distance to mate dropped *)
eval_numeric_flat(score) ==
    IF score.kind = "mate"
    THEN IF score.val >= 1 THEN max_score ELSE -max_score
    ELSE score.val

(* eval_numeric: the numeric evaluation of a score *)
eval_numeric(score) ==
    IF score.kind = "mate"
    THEN LET dtm == score.val
         IN  IF dtm >= 1 THEN max_score - dtm ELSE -(max_score - dtm)
    ELSE score.val

(* A Python float x = n/100 with n an integer: its sign bit and |n|.  *)
(* cp / 100 and cp / -100 (true division; 0 / -100 is -0.0).          *)
DivBy100(cp) == [neg |-> cp < 0, cents |-> Abs(cp)]
DivByMinus100(cp) == [neg |-> cp >= 0, cents |-> Abs(cp)]
Negate(number) == [number EXCEPT !.neg = ~number.neg]

TwoDigits(n) == IF n < 10 THEN "0" \o ToString(n) ELSE ToString(n)

(* '{:.2f}'.format(number) *)
Format2f(number) ==
    (IF number.neg THEN "-" ELSE "") \o ToString(number.cents \div 100)
        \o "." \o TwoDigits(number.cents % 100)

(* eval_absolute: relative evaluation to White's point of view, as text *)
eval_absolute(number, white_to_move) ==
    Format2f(IF ~white_to_move THEN Negate(number) ELSE number)

MateComment(score) == "Mate in " \o ToString(Abs(score.val))

(* judge_move, lines 125-130: the comment for the best move *)
BestComment(score, turn) ==
    IF score.kind = "mate" THEN MateComment(score)
    ELSE eval_absolute(DivBy100(score.val), turn)

(* judge_move, lines 147-152: the comment for the played move *)
PlayedComment(score, turn) ==
    IF score.kind = "mate" THEN MateComment(score)
    ELSE eval_absolute(DivByMinus100(score.val), turn)

----------------------------------------------------------------------------
(* Quality classifier *)

(* the threshold of line 95 put above zero *)
needs_annotation_no_loss(j) ==
    LET delta == j.playedeval - j.besteval
    IN  delta < 1

needs_annotation(j) ==
    LET delta == j.playedeval - j.besteval
    IN  delta < -50

(* get_nags with the thresholds taken inclusively *)
get_nags_inclusive(j) ==
    LET delta == j.playedeval - j.besteval
        byDelta == IF delta <= -300 THEN <<NAG_BLUNDER>>
                   ELSE IF delta <= -150 THEN <<NAG_MISTAKE>>
                   ELSE IF delta <= -75 THEN <<NAG_DUBIOUS_MOVE>>
                   ELSE <<>>
        afterPlayed == IF j.playedeval > 800 THEN <<>> ELSE byDelta
    IN  IF j.besteval < -800 THEN <<>> ELSE afterPlayed

(* get_nags with the played-move override left out *)
get_nags_no_override(j) ==
    LET delta == j.playedeval - j.besteval
        byDelta == IF delta < -300 THEN <<NAG_BLUNDER>>
                   ELSE IF delta < -150 THEN <<NAG_MISTAKE>>
                   ELSE IF delta < -75 THEN <<NAG_DUBIOUS_MOVE>>
                   ELSE <<>>
    IN  IF j.besteval < -800 THEN <<>> ELSE byDelta

get_nags(j) ==
    LET delta == j.playedeval - j.besteval
        byDelta == IF delta < -300 THEN <<NAG_BLUNDER>>
                   ELSE IF delta < -150 THEN <<NAG_MISTAKE>>
                   ELSE IF delta < -75 THEN <<NAG_DUBIOUS_MOVE>>
                   ELSE <<>>
        afterPlayed == IF j.playedeval > 800 THEN <<>> ELSE byDelta
    IN  IF j.besteval < -800 THEN <<>> ELSE afterPlayed

----------------------------------------------------------------------------
(* Positions: the game-end predicates that hold of a board *)

Flags == {"stalemate", "insufficient", "fifty", "threefold", "checkmate",
          "seventyfive", "fivefold"}

(* Checkmate and stalemate exclude each other; a fivefold repetition is *)
(* also a claimable threefold repetition.                               *)
Positions ==
    {p \in SUBSET Flags :
        /\ ~({"checkmate", "stalemate"} \subseteq p)
        /\ ("fivefold" \in p => "threefold" \in p)}

(* The positions drawn for the end of an inserted branch: the game goes *)
(* on, or it ended in stalemate, or it ended in checkmate.              *)
BranchEndPositions == {{}, {"stalemate"}, {"checkmate"}}

(* is_game_over() that does not look at checkmate *)
is_game_over_draws(p) ==
    p \cap {"stalemate", "insufficient", "seventyfive", "fivefold"} # {}

(* Board.is_game_over() *)
is_game_over(p) ==
    p \cap {"checkmate", "stalemate", "insufficient", "seventyfive",
            "fivefold"} # {}

var_end_comment(p, score) ==
    IF "stalemate" \in p THEN "Stalemate"
    ELSE IF "insufficient" \in p THEN "Insufficient material to mate"
    ELSE IF "fifty" \in p THEN "Fifty move rule"
    ELSE IF "threefold" \in p THEN "Three-fold repetition"
    ELSE IF "checkmate" \in p THEN ""
    ELSE score

----------------------------------------------------------------------------
(* The move tree (chess.pgn.GameNode) *)

NewNode(move, parent) ==
    [move |-> move, parent |-> parent, variations |-> <<>>,
     comment |-> "", nags |-> <<>>]

(* the new child put last, as add_variation does *)
AddVariationAtEnd(t, p, move) ==
    LET n == Len(t) + 1
    IN  [Append(t, NewNode(move, p))
            EXCEPT ![p].variations = Append(t[p].variations, n)]

(* GameNode.add_main_variation(move): a new child, put first *)
AddMainVariation(t, p, move) ==
    LET n == Len(t) + 1
    IN  [Append(t, NewNode(move, p))
            EXCEPT ![p].variations = <<n>> \o t[p].variations]

(* GameNode.add_variation(move): a new child, put last *)
AddVariation(t, p, move) ==
    LET n == Len(t) + 1
    IN  [Append(t, NewNode(move, p))
            EXCEPT ![p].variations = Append(t[p].variations, n)]

(* GameNode.variation(move): the first child with that move *)
VariationIndex(t, p, move) ==
    CHOOSE i \in 1..Len(t[p].variations) :
        /\ t[t[p].variations[i]].move = move
        /\ \A k \in 1..(i - 1) : t[t[p].variations[k]].move # move

Variation(t, p, move) == t[p].variations[VariationIndex(t, p, move)]

(* GameNode.demote(move): swap the variation with its next sibling *)
Demote(t, p, move) ==
    LET vs == t[p].variations
        i == VariationIndex(t, p, move)
    IN  IF i < Len(vs)
        THEN [t EXCEPT ![p].variations =
                 [vs EXCEPT ![i] = vs[i + 1], ![i + 1] = vs[i]]]
        ELSE t

RECURSIVE BoardOf(_, _)
(* GameNode.board(): the moves from the root to the node *)
BoardOf(t, n) ==
    IF t[n].parent = NoNode THEN <<>>
    ELSE Append(BoardOf(t, t[n].parent), t[n].move)

(* Board.turn: White (TRUE) moves at even ply *)
Turn(b) == Len(b) % 2 = 0

RECURSIVE End(_, _)
(* GameNode.end(): follow the main line to its last node *)
End(t, n) ==
    IF t[n].variations = <<>> THEN n ELSE End(t, t[n].variations[1])

----------------------------------------------------------------------------
(* Annotation inserter: add_annotation *)

(* the played move's comment set with no test of line 212 *)
SetPlayedCommentAlways(t, n, j) == [t EXCEPT ![n].comment = j.playedcomment]

(* line 212-213: the played move's comment, unless it is the best move *)
SetPlayedComment(t, n, j) ==
    IF j.bestmove # t[n].move
    THEN [t EXCEPT ![n].comment = j.playedcomment]
    ELSE t

(* the PV taken whole *)
TruncatePvNot(pv, d) == pv

(* line 219, 221: judgment["pv"][:searchdepth // 2] *)
TruncatePv(pv, d) == SubSeq(pv, 1, Min(d \div 2, Len(pv)))

RECURSIVE AddPvNoSkip(_, _, _)
(* the moves appended with no test of line 222 *)
AddPvNoSkip(t, var, moves) ==
    IF moves = <<>> THEN [tree |-> t, var_node |-> var]
    ELSE LET move == Head(moves)
             t2 == AddMainVariation(t, var, move)
         IN  AddPvNoSkip(t2, Variation(t2, var, move), Tail(moves))

RECURSIVE AddPv(_, _, _)
(* lines 221-224: append the moves below var, skipping a move equal to *)
(* the move of the node just added                                     *)
AddPv(t, var, moves) ==
    IF moves = <<>> THEN [tree |-> t, var_node |-> var]
    ELSE LET move == Head(moves)
         IN  IF t[var].move # move
             THEN LET t2 == AddMainVariation(t, var, move)
                  IN  AddPv(t2, Variation(t2, var, move), Tail(moves))
             ELSE AddPv(t, var, Tail(moves))

(* lines 217-224: the best move as the parent's main child, then the PV *)
InsertBranch(t, prev, j, d) ==
    LET t2 == AddMainVariation(t, prev, j.bestmove)
    IN  AddPv(t2, Variation(t2, prev, j.bestmove), TruncatePv(j.pv, d))

(* the end of the variation left without a comment *)
BranchEndCommentNone(p, j) == ""

(* line 227: the comment put on the end of the variation *)
BranchEndComment(p, j) == j["bestcomment"]

(* the demotion left out *)
DemoteBranchNot(t, prev, j) == t

(* line 231: prev_node.demote(judgment["bestmove"]) *)
DemoteBranch(t, prev, j) == Demote(t, prev, j.bestmove)

(* line 234: node.nags = get_nags(judgment) *)
SetNags(t, n, j) == [t EXCEPT ![n].nags = get_nags(j)]

(* add_annotation(node, info_handler, judgment, searchdepth); p is the *)
(* position at the end of the inserted branch                          *)
add_annotation(t, n, j, d, p) ==
    LET prev == t[n].parent
        t1 == SetPlayedComment(t, n, j)
        built == InsertBranch(t1, prev, j, d)
        t3 == [built.tree EXCEPT
                  ![built.var_node].comment = BranchEndComment(p, j)]
        t4 == DemoteBranch(t3, prev, j)
    IN  [tree |-> SetNags(t4, n, j), var_node |-> built.var_node]

----------------------------------------------------------------------------
(* The inputs of a run *)

(* A game read from the PGN file: the main line ms, and, when side is a *)
(* move, one side variation of the root already in the file.            *)
Game(ms, side) ==
    LET L == Len(ms)
        main == [i \in 1..(L + 1) |->
                    [move |-> IF i = 1 THEN NoMove ELSE ms[i - 1],
                     parent |-> i - 1,
                     variations |-> IF i <= L THEN <<i + 1>> ELSE <<>>,
                     comment |-> "", nags |-> <<>>]]
    IN  IF side = NoMove THEN main ELSE AddVariation(main, Root, side)

(* Moves are only ever compared for equality, and a played move only *)
(* with the engine's answers for its own position: every main line   *)
(* plays "a", and a side variation of the file plays "b".             *)
MainLines == {[i \in 1..L |-> "a"] : L \in 0..MaxPly}

SideLines(ms) ==
    IF Len(ms) = 0 THEN {NoMove} ELSE {NoMove} \cup (Moves \ {ms[1]})

(* The scores the engine answers a search of the walk with: a mate, an *)
(* even score, and a large score against the side to move, with which *)
(* both overrides of get_nags are met in the walk.                    *)
EngineScores == {NoScore, Mate(1), Cp(0), Cp(-900)}

Pvs == UNION {[1..k -> Moves] : k \in 1..MaxPvLen}

(* The search depths of a run: depth // 2 is 0, 1 (even and odd) and 2 *)
Depths == {1, 2, 3, 4}

NoJudgment ==
    [bestmove |-> NoMove, besteval |-> 0, bestcomment |-> "", pv |-> <<>>,
     playedeval |-> 0, playedcomment |-> ""]

Init ==
    \E ms \in MainLines : \E side \in SideLines(ms) : \E d \in Depths :
    \E p \in Positions :
        /\ tree = Game(ms, side)
        /\ node = End(Game(ms, side), Root)
        /\ pc = "final"
        /\ caller = "none"
        /\ board = <<>>
        /\ info = NoScore
        /\ judgment = NoJudgment
        /\ searches = 0
        /\ var_node = NoNode
        /\ pos = p
        /\ judged = <<>>
        /\ depth = d
        /\ ret = 0

----------------------------------------------------------------------------
(* judge_move(board, played_move, engine, info_handler, searchdepth) *)

played_move == tree[node].move

(* the call: judge_move(node.parent.board(), node.move, ...) *)
CallJudgeMove(from) ==
    /\ board' = BoardOf(tree, tree[node].parent)
    /\ caller' = from
    /\ judgment' = NoJudgment
    /\ searches' = 0
    /\ judged' = Append(judged, node)
    /\ pos' = {}
    /\ pc' = "search1"
    /\ UNCHANGED <<tree, node, info, var_node, depth, ret>>

(* lines 117-130: the first search, on the position before the move *)
JudgeBest ==
    /\ pc = "search1"
    /\ \E bm \in Moves : \E sc \in EngineScores : \E pv \in Pvs :
        /\ HasScore(sc)
        /\ info' = sc
        /\ judgment' = [judgment EXCEPT
                           !.bestmove = bm,
                           !.besteval = eval_numeric(sc),
                           !.pv = pv,
                           !.bestcomment = BestComment(sc, Turn(board))]
    /\ searches' = searches + 1
    /\ pc' = "compare"
    /\ UNCHANGED <<tree, node, caller, board, var_node, pos, judged, depth, ret>>

(* the missing score passed over: judge_move returns what it has *)
JudgeBestNoScoreSilent ==
    /\ pc = "search1"
    /\ \E bm \in Moves : \E sc \in EngineScores :
        /\ ~HasScore(sc)
        /\ info' = sc
        /\ judgment' = [judgment EXCEPT !.bestmove = bm]
    /\ searches' = searches + 1
    /\ pc' = "judged"
    /\ UNCHANGED <<tree, node, caller, board, var_node, pos, judged, depth, ret>>

(* line 121: eval_numeric raises when the score is neither mate nor cp *)
JudgeBestNoScore ==
    /\ pc = "search1"
    /\ \E bm \in Moves : \E sc \in EngineScores :
        /\ ~HasScore(sc)
        /\ info' = sc
        /\ judgment' = [judgment EXCEPT !.bestmove = bm]
    /\ searches' = searches + 1
    /\ pc' = "aborted"
    /\ UNCHANGED <<tree, node, caller, board, var_node, pos, judged, depth, ret>>

(* lines 133-134, 147-154: the played move is the engine's best move; *)
(* the played move's comment is made from the first search's score    *)
JudgeSame ==
    /\ pc = "compare"
    /\ played_move = judgment.bestmove
    /\ judgment' = [judgment EXCEPT
                       !.playedeval = judgment.besteval,
                       !.playedcomment = PlayedComment(info, Turn(board))]
    /\ pc' = "judged"
    /\ UNCHANGED <<tree, node, caller, board, info, searches, var_node, pos,
                   judged, depth, ret>>

(* lines 135-137: board.push(played_move) *)
JudgePush ==
    /\ pc = "compare"
    /\ played_move # judgment.bestmove
    /\ board' = Append(board, played_move)
    /\ pc' = "search2"
    /\ UNCHANGED <<tree, node, caller, info, judgment, searches, var_node, pos,
                   judged, depth, ret>>

(* the evaluation of the second search taken as it is *)
PlayedEvalNotNegated(sc) == eval_numeric(sc)

(* line 141: the sign is inverted, the search ran for the opponent *)
PlayedEval(sc) == -eval_numeric(sc)

(* lines 138-141: the second search, on the position after the move *)
JudgePlayed ==
    /\ pc = "search2"
    /\ \E sc \in EngineScores :
        /\ HasScore(sc)
        /\ info' = sc
        /\ judgment' = [judgment EXCEPT !.playedeval = PlayedEval(sc)]
    /\ searches' = searches + 1
    /\ pc' = "pop"
    /\ UNCHANGED <<tree, node, caller, board, var_node, pos, judged, depth, ret>>

(* line 141: eval_numeric raises; the pushed move stays on the board *)
JudgePlayedNoScore ==
    /\ pc = "search2"
    /\ \E sc \in EngineScores :
        /\ ~HasScore(sc)
        /\ info' = sc
    /\ searches' = searches + 1
    /\ pc' = "aborted"
    /\ UNCHANGED <<tree, node, caller, board, judgment, var_node, pos, judged,
                   depth, ret>>

(* the pop left out *)
PopNot(b) == b

(* line 144: board.pop() *)
Pop(b) == SubSeq(b, 1, Len(b) - 1)

(* lines 144-154: board.pop(), the played move's comment, the return *)
JudgePop ==
    /\ pc = "pop"
    /\ board' = Pop(board)
    /\ judgment' = [judgment EXCEPT
                       !.playedcomment = PlayedComment(info, Turn(Pop(board)))]
    /\ pc' = "judged"
    /\ UNCHANGED <<tree, node, caller, info, searches, var_node, pos,
                   judged, depth, ret>>

----------------------------------------------------------------------------
(* main(): the game walker *)

(* line 266 left out: the walk stays on the final node *)
AfterFinalStay(t, n) == n

(* line 266: node = node.parent, after either branch of line 261 *)
AfterFinal(t, n) == t[n].parent

(* lines 261-262, 266: the final position is game over *)
FinalGameOver ==
    /\ pc = "final"
    /\ is_game_over(pos)
    /\ tree' = [tree EXCEPT ![node].comment = var_end_comment(pos, "")]
    /\ node' = AfterFinal(tree, node)
    /\ pc' = "loop"
    /\ UNCHANGED <<caller, board, info, judgment, searches, var_node, pos,
                   judged, depth, ret>>

(* lines 263-264: the final position is not game over: judge the last move *)
FinalJudge ==
    /\ pc = "final"
    /\ ~is_game_over(pos)
    /\ tree[node].parent # NoNode
    /\ CallJudgeMove("final")

(* the judgment passed over when there is no move to judge *)
FinalNoParentSkip ==
    /\ pc = "final"
    /\ ~is_game_over(pos)
    /\ tree[node].parent = NoNode
    /\ pc' = "loop"
    /\ UNCHANGED <<tree, node, caller, board, info, judgment, searches,
                   var_node, pos, judged, depth, ret>>

(* line 264 with no move in the game: node.parent is None *)
FinalNoParent ==
    /\ pc = "final"
    /\ ~is_game_over(pos)
    /\ tree[node].parent = NoNode
    /\ pc' = "aborted"
    /\ UNCHANGED <<tree, node, caller, board, info, judgment, searches,
                   var_node, pos, judged, depth, ret>>

(* the call of add_annotation(node, info_handler, judgment, depth); the *)
(* judgment is read no more after it (but by the debugging prints)     *)
CallAddAnnotation ==
    /\ \E p \in BranchEndPositions :
        LET r == add_annotation(tree, node, judgment, depth, p)
        IN  /\ tree' = r.tree
            /\ var_node' = r.var_node
            /\ pos' = p
    /\ judgment' = NoJudgment
    /\ searches' = 0
    /\ pc' = "advance"
    /\ UNCHANGED <<node, caller, board, info, judged, depth, ret>>

(* line 265: the final node is annotated whatever the judgment *)
AnnotateFinal ==
    /\ pc = "judged"
    /\ caller = "final"
    /\ CallAddAnnotation

(* lines 282-283: a node of the loop is annotated if it needs it *)
AnnotateLoop ==
    /\ pc = "judged"
    /\ caller = "loop"
    /\ needs_annotation(judgment)
    /\ CallAddAnnotation

SkipAnnotation ==
    /\ pc = "judged"
    /\ caller = "loop"
    /\ ~needs_annotation(judgment)
    /\ judgment' = NoJudgment
    /\ searches' = 0
    /\ pc' = "advance"
    /\ UNCHANGED <<tree, node, caller, board, info, var_node, pos, judged,
                   depth, ret>>

(* the loop's test of line 270 missing the root: the walk goes past it *)
LoopStepPastRoot(t, n) == IF t[n].parent = Root THEN NoNode ELSE t[n].parent

(* lines 272, 295: prev_node = node.parent ... node = prev_node *)
LoopStep(t, n) == t[n].parent

(* line 266 and line 295: node = node.parent *)
Advance ==
    /\ pc = "advance"
    /\ node' = IF caller = "final" THEN AfterFinal(tree, node)
                ELSE LoopStep(tree, node)
    /\ var_node' = NoNode
    /\ pos' = {}
    /\ pc' = "loop"
    /\ UNCHANGED <<tree, caller, board, info, judgment, searches, judged,
                   depth, ret>>

(* lines 270-280: the node is not the root: judge its move *)
LoopJudge ==
    /\ pc = "loop"
    /\ node # Root
    /\ node # NoNode
    /\ CallJudgeMove("loop")

(* lines 270-272 with node None: None.parent *)
LoopNoParent ==
    /\ pc = "loop"
    /\ node = NoNode
    /\ pc' = "aborted"
    /\ UNCHANGED <<tree, node, caller, board, info, judgment, searches,
                   var_node, pos, judged, depth, ret>>

(* lines 270, 298: the loop ends at the root, which gets its comment *)
LoopExit ==
    /\ pc = "loop"
    /\ node = Root
    /\ tree' = [tree EXCEPT
                   ![node].comment = engine_name \o " Depth: " \o ToString(depth)]
    /\ pos' = {}
    /\ pc' = "emit"
    /\ UNCHANGED <<node, caller, board, info, judgment, searches, var_node,
                   judged, depth, ret>>

(* line 301: print(node) *)
Emit ==
    /\ pc = "emit"
    /\ pc' = "done"
    /\ UNCHANGED <<tree, node, caller, board, info, judgment, searches,
                   var_node, pos, judged, depth, ret>>

Next ==
    \/ FinalGameOver
    \/ FinalJudge
    \/ FinalNoParent
    \/ JudgeBest
    \/ JudgeBestNoScore
    \/ JudgeSame
    \/ JudgePush
    \/ JudgePlayed
    \/ JudgePlayedNoScore
    \/ JudgePop
    \/ AnnotateFinal
    \/ AnnotateLoop
    \/ SkipAnnotation
    \/ Advance
    \/ LoopJudge
    \/ LoopNoParent
    \/ LoopExit
    \/ Emit

Spec == Init /\ [][Next]_vars

(* The runs at the smallest depth whose final position is either not *)
(* over or checkmate: the walk reads the depth only to truncate the   *)
(* PV, and the final position only through is_game_over.               *)
InitFair == Init /\ depth = 1 /\ pos \in {{}, {"checkmate"}}

(* main() is one sequential thread: a step that can be taken is taken *)
SpecFair == InitFair /\ [][Next]_vars /\ WF_vars(Next)

----------------------------------------------------------------------------
(* eval_numeric called on its own: every score, the result in ret *)

MateInputs == {Mate(m) : m \in (-MaxMate)..MaxMate}

(* Centipawn scores: a grid around zero, and two large evaluations *)
CpInputs == {Cp(25 * k) : k \in (-MaxCpStep)..MaxCpStep}
                \cup {Cp(-9000), Cp(9000)}

ScoreInputs == {NoScore} \cup MateInputs \cup CpInputs

Idle ==
    /\ tree = Game(<<>>, NoMove)
    /\ node = Root
    /\ board = <<>>
    /\ searches = 0
    /\ var_node = NoNode
    /\ pos = {}
    /\ judged = <<>>
    /\ depth = 12

InitEval ==
    /\ Idle
    /\ info \in ScoreInputs
    /\ judgment = NoJudgment
    /\ caller = "eval_numeric"
    /\ pc = "call"
    /\ ret = 0

(* lines 42-59 *)
EvalNumericReturn ==
    /\ pc = "call"
    /\ caller = "eval_numeric"
    /\ HasScore(info)
    /\ ret' = eval_numeric(info)
    /\ pc' = "returned"
    /\ UNCHANGED <<tree, node, caller, board, info, judgment, searches,
                   var_node, pos, judged, depth>>

(* line 59 with neither score set: `result` is unbound *)
EvalNumericRaise ==
    /\ pc = "call"
    /\ caller = "eval_numeric"
    /\ ~HasScore(info)
    /\ pc' = "aborted"
    /\ UNCHANGED <<tree, node, caller, board, info, judgment, searches,
                   var_node, pos, judged, depth, ret>>

NextEval == EvalNumericReturn \/ EvalNumericRaise

SpecEval == InitEval /\ [][NextEval]_vars

----------------------------------------------------------------------------
(* get_nags called on its own: judgments around every threshold *)

BestInputs == {-1200, -801, -800, -799, 0, 500, 799, 800, 801, 1100, 1101,
               1300, 1400}

DeltaInputs == {-500, -301, -300, -299, -151, -150, -149, -76, -75, -74,
                -51, -50, 0, 100}

InitNags ==
    /\ Idle
    /\ info = NoScore
    /\ \E b \in BestInputs : \E d \in DeltaInputs :
          judgment = [NoJudgment EXCEPT !.besteval = b, !.playedeval = b + d]
    /\ caller = "get_nags"
    /\ pc = "call"
    /\ ret = <<>>

(* lines 157-182 *)
GetNagsReturn ==
    /\ pc = "call"
    /\ caller = "get_nags"
    /\ ret' = get_nags(judgment)
    /\ pc' = "returned"
    /\ UNCHANGED <<tree, node, caller, board, info, judgment, searches,
                   var_node, pos, judged, depth>>

NextNags == GetNagsReturn

SpecNags == InitNags /\ [][NextNags]_vars

----------------------------------------------------------------------------
(* Properties *)

Max(x, y) == IF x > y THEN x ELSE y

Ply(t, n) == Len(BoardOf(t, n))

RECURSIVE BranchHead(_, _, _)
(* the child of prev that the node v descends from *)
BranchHead(t, v, prev) ==
    IF t[v].parent = prev THEN v ELSE BranchHead(t, t[v].parent, prev)

RECURSIVE MainLineFrom(_, _)
(* the nodes reached from n by following the main child *)
MainLineFrom(t, n) ==
    IF t[n].variations = <<>> THEN {n}
    ELSE {n} \cup MainLineFrom(t, t[n].variations[1])

(* add_annotation has just returned *)
Annotated == pc = "advance" /\ var_node # NoNode

(* the step that runs add_annotation *)
AnnotateStep == pc = "judged" /\ pc' = "advance" /\ var_node' # NoNode

Inserted == Len(tree') - Len(tree)

(* C1: after add_annotation the parent's main child is the played node *)
(* again, and the inserted branch is another, non-main child.          *)
C1_MainChildRestored ==
    Annotated =>
        LET prev == tree[node].parent
            vs == tree[prev].variations
            head == BranchHead(tree, var_node, prev)
        IN  /\ vs[1] = node
            /\ head # node
            /\ \E i \in 2..Len(vs) : vs[i] = head

(* the best move was the played move: two children with the same move *)
C1_Witness ==
    /\ Annotated
    /\ tree[BranchHead(tree, var_node, tree[node].parent)].move = tree[node].move
    /\ BranchHead(tree, var_node, tree[node].parent) # node

(* C2 as stated: add_annotation inserts at most depth // 2 nodes. *)
C2_AtMostHalfDepth ==
    [][AnnotateStep => Inserted <= depth \div 2]_vars

(* C2 as amended: add_annotation inserts at most 1 + depth // 2 nodes, *)
(* and at most max(1, depth // 2) when the PV begins with the best     *)
(* move.                                                               *)
C2_InsertedBound ==
    [][AnnotateStep =>
          /\ Inserted <= 1 + depth \div 2
          /\ (judgment.pv[1] = judgment.bestmove
                 => Inserted <= Max(1, depth \div 2))]_vars

(* a branch of 1 + depth // 2 nodes, for a depth of two or more *)
C2_Witness ==
    /\ Annotated
    /\ depth >= 2
    /\ Ply(tree, var_node) - Ply(tree, tree[node].parent) = 1 + depth \div 2

(* C3: the comment on the end of the inserted branch is the one        *)
(* var_end_comment chooses for the position there: a fixed text for a  *)
(* game-end condition, the best move's comment otherwise.              *)
C3_EndCommentByPosition ==
    [][AnnotateStep =>
          tree'[var_node'].comment =
              var_end_comment(pos', judgment.bestcomment)]_vars

(* C4: judge_move issues one search and playedeval = besteval when the *)
(* played move is the best move; otherwise two, the second on the      *)
(* position after the played move, and playedeval is the negated       *)
(* numeric evaluation of the second search.                            *)
C4_SearchesAndPlayedEval ==
    /\ pc = "search2" =>
          board = Append(BoardOf(tree, tree[node].parent), played_move)
    /\ pc = "judged" =>
          IF played_move = judgment.bestmove
          THEN /\ searches = 1
               /\ judgment.playedeval = judgment.besteval
          ELSE /\ searches = 2
               /\ judgment.playedeval = -eval_numeric(info)

C4_Witness ==
    /\ pc = "judged"
    /\ played_move # judgment.bestmove
    /\ searches = 2
    /\ judgment.playedeval # judgment.besteval

JudgePcs == {"search1", "compare", "search2", "pop"}

(* C5: when judge_move returns its board holds the moves it held at    *)
(* the call (node.parent.board()), and no step of judge_move changes   *)
(* the tree.                                                           *)
C5_BoardRestored ==
    /\ [](pc = "judged" => board = BoardOf(tree, tree[node].parent))
    /\ [][(pc \in JudgePcs) => (tree' = tree /\ node' = node)]_vars

(* judge_move returned after a push and a pop *)
C5_Witness ==
    /\ pc = "judged"
    /\ searches = 2
    /\ board = BoardOf(tree, tree[node].parent)
    /\ Len(board) = MaxPly - 1

NagsReturned == pc = "returned" /\ caller = "get_nags"

Delta == judgment.playedeval - judgment.besteval

(* C6: with no override (playedeval <= 800, besteval >= -800) get_nags *)
(* returns Blunder iff delta < -300, Mistake iff -300 <= delta < -150, *)
(* Dubious iff -150 <= delta < -75, and nothing otherwise.             *)
C6_Thresholds ==
    (NagsReturned /\ judgment.playedeval <= 800 /\ judgment.besteval >= -800)
        => /\ ret = <<NAG_BLUNDER>> <=> Delta < -300
           /\ ret = <<NAG_MISTAKE>> <=> (-300 <= Delta /\ Delta < -150)
           /\ ret = <<NAG_DUBIOUS_MOVE>> <=> (-150 <= Delta /\ Delta < -75)
           /\ ret = <<>> <=> Delta >= -75

C6_Witness ==
    /\ NagsReturned
    /\ judgment.playedeval <= 800
    /\ judgment.besteval >= -800
    /\ Delta = -300
    /\ ret = <<NAG_MISTAKE>>

(* C7: get_nags returns no glyph when playedeval > 800 or besteval <   *)
(* -800, whatever delta is.                                            *)
C7_Overrides ==
    (NagsReturned /\ (judgment.playedeval > 800 \/ judgment.besteval < -800))
        => ret = <<>>

C7_Witness ==
    /\ NagsReturned
    /\ Delta = -500
    /\ judgment.playedeval = 900
    /\ ret = <<>>

EvalReturned == pc = "returned" /\ caller = "eval_numeric"

Sign(m) == IF m > 0 THEN 1 ELSE IF m < 0 THEN -1 ELSE 0

(* C8: eval_numeric returns sign(m) * (10000 - |m|) for a mate in m,   *)
(* m positive or negative, and cp unchanged for a centipawn score.     *)
C8_MateFormula ==
    EvalReturned =>
        /\ (info.kind = "mate" /\ info.val # 0)
              => ret = Sign(info.val) * (10000 - Abs(info.val))
        /\ info.kind = "cp" => ret = info.val

DominantBound(m) == IF m > 0 THEN max_score ELSE -max_score

DistanceToBound(v, m) == Abs(v - DominantBound(m))

(* a centipawn value below the band of the mate values *)
Realistic(cp) == Abs(cp) < max_score - MaxMate

(* C9: of two mates of the same sign, the numeric value of the shorter *)
(* is closer to the dominant bound (10000 or -10000) than that of the  *)
(* longer, and a mate's numeric value exceeds every realistic          *)
(* centipawn value in magnitude.                                       *)
C9_MateDominance ==
    (EvalReturned /\ info.kind = "mate" /\ info.val # 0) =>
        /\ \A s \in MateInputs :
              (Sign(s.val) = Sign(info.val) /\ Abs(info.val) < Abs(s.val))
                 => DistanceToBound(ret, info.val)
                       < DistanceToBound(eval_numeric(s), s.val)
        /\ \A c \in CpInputs :
              Realistic(c.val) => Abs(ret) > Abs(eval_numeric(c))

C9_Witness ==
    /\ EvalReturned
    /\ info.kind = "mate"
    /\ info.val < -1
    /\ ret < -max_score

JudgedSet == {judged[i] : i \in 1..Len(judged)}

C10_Order ==
    /\ \A i \in 1..Len(judged) :
          /\ judged[i] # Root
          /\ judged[i] \in MainLineFrom(tree, Root)
    /\ \A i \in 1..(Len(judged) - 1) :
          /\ judged[i + 1] = tree[judged[i]].parent
          /\ Ply(tree, judged[i + 1]) < Ply(tree, judged[i])
    /\ pc = "done" =>
          /\ MainLineFrom(tree, Root) \ {Root, End(tree, Root)} \subseteq JudgedSet
          /\ JudgedSet \subseteq MainLineFrom(tree, Root) \ {Root}

(* C10: the walker judges the main line from the last move to the      *)
(* first: each judged node is the parent of the one judged before, the *)
(* root is never judged, at the end every other main-line node has     *)
(* been judged once, but for the final node, which is judged exactly   *)
(* when its position is not game over.                                 *)
C10_LastToFirst ==
    /\ []C10_Order
    /\ [][(pc = "final" /\ pc' # "aborted") =>
              IF is_game_over(pos) THEN judged' = <<>>
              ELSE judged' = <<End(tree, Root)>>]_vars
    /\ [][(pc = "loop" /\ judged = <<>> /\ judged' # <<>>) =>
              judged' = <<tree[End(tree, Root)].parent>>]_vars

(* a game of two moves walked to the end, both moves judged *)
C10_Witness ==
    /\ pc = "done"
    /\ Len(judged) = 2
    /\ judged[1] = End(tree, Root)
    /\ judged[2] = tree[End(tree, Root)].parent

(* the engine gave a response with no score, and eval_numeric raised *)
EngineSilent == pc = "aborted" /\ searches > 0 /\ ~HasScore(info)

RootComment == engine_name \o " Depth: " \o ToString(depth)

(* C11: a game with at least one move, with an engine that answers   *)
(* every search, is walked to the end: the loop ends at the root, the *)
(* root then gets the comment naming the engine and the depth, and    *)
(* only then is the game emitted.                                     *)
C11_TerminatesAtRoot ==
    /\ (tree[Root].variations # <<>>) => <>(pc = "done" \/ EngineSilent)
    /\ [](pc \in {"emit", "done"}
            => node = Root /\ tree[Root].comment = RootComment)
    /\ [][/\ (pc' = "emit" /\ pc # "emit") => (pc = "loop" /\ node = Root)
          /\ (pc' = "done" /\ pc # "done") => pc = "emit"]_vars

(* a game of two moves was judged move by move and emitted *)
C11_Witness ==
    /\ pc = "done"
    /\ Len(judged) = 2
    /\ tree[Root].comment = RootComment

(* C12 as stated: at every judged node, the final node included,      *)
(* add_annotation is invoked only if needs_annotation(judgment)        *)
(* holds; a judged node with delta >= -50 keeps the tree as it is: no  *)
(* comment, no glyph, no side variation.                               *)
C12_AnnotateOnlyIfNeeded ==
    [][(pc = "judged" /\ pc' = "advance") =>
          /\ (var_node' # NoNode => needs_annotation(judgment))
          /\ (~needs_annotation(judgment) => tree' = tree)]_vars

(* the final node of the game *)
Final == End(tree, Root)

(* the predicates var_end_comment tests before is_checkmate *)
TestedBeforeCheckmate == {"stalemate", "insufficient", "fifty", "threefold"}

(* the final step on a checkmate position: no search, no judgment, and *)
(* nothing of the tree changes but the final node's comment            *)
CheckmateStep(comment) ==
    (pc = "final" /\ "checkmate" \in pos) =>
        /\ pc' = "loop"
        /\ searches' = 0 /\ judged' = <<>> /\ var_node' = NoNode
        /\ tree' = [tree EXCEPT ![Final].comment = comment]
        /\ tree[Final].nags = <<>>

(* after a final position that was game over, no later step touches the *)
(* final node or gives it a sibling                                     *)
FinalNodeKept ==
    (pc # "final" /\ (judged = <<>> \/ judged[1] # Final)) =>
        /\ tree'[Final] = tree[Final]
        /\ tree[Final].parent # NoNode =>
               tree'[tree[Final].parent].variations
                   = tree[tree[Final].parent].variations

OneMoveBlunderStep ==
    /\ AnnotateStep
    /\ caller = "final"
    /\ tree[node].parent = Root
    /\ Delta < -300

(* what the scenario says of the tree after the step, with the number *)
(* of children the root then has                                       *)
OneMoveBlunderResult(children) ==
    /\ tree'[node].nags = <<NAG_BLUNDER>>
    /\ tree'[node].comment = judgment.playedcomment
    /\ tree'[node].comment # ""
    /\ Len(tree'[Root].variations) = children
    /\ tree'[Root].variations[1] = node
    /\ tree'[Root].variations[2] = BranchHead(tree', var_node', Root)
    /\ tree'[var_node'].variations = <<>>
    /\ tree'[var_node'].comment = judgment.bestcomment
    /\ tree'[var_node'].comment # ""

(* the rest of the run on a one-move game leaves the move's node and   *)
(* the root's children as they are                                     *)
OneMoveKept ==
    (pc \in {"advance", "loop", "emit"} /\ Len(judged) = 1
        /\ tree[judged[1]].parent = Root) =>
        /\ tree'[judged[1]] = tree[judged[1]]
        /\ tree'[Root].variations = tree[Root].variations

(* C14 as stated: a one-move game whose move is a blunder (delta <     *)
(* -300) and whose final position is not over ends with the Blunder    *)
(* glyph and a non-empty comment on the move's node, and with exactly  *)
(* one side variation at the root, whose last node carries an          *)
(* evaluation comment.                                                 *)
C14_OneMoveBlunder ==
    [][(OneMoveBlunderStep => OneMoveBlunderResult(2)) /\ OneMoveKept]_vars

(* C14 as amended: the same, provided no override of get_nags applies  *)
(* (playedeval <= 800 and besteval >= -800), and with exactly one side *)
(* variation more at the root than the input had.                      *)
C14_OneMoveBlunderNoOverride ==
    [][/\ (/\ OneMoveBlunderStep
           /\ judgment.playedeval <= 800
           /\ judgment.besteval >= -800)
          => OneMoveBlunderResult(Len(tree[Root].variations) + 1)
       /\ OneMoveKept]_vars

(* a one-move game with no variation of its own, emitted with the      *)
(* Blunder glyph on its move and one side variation at the root        *)
C14_Witness ==
    /\ pc = "done"
    /\ judged = <<Final>>
    /\ tree[Final].parent = Root
    /\ tree[Final].nags = <<NAG_BLUNDER>>
    /\ tree[Final].comment # ""
    /\ Len(tree[Root].variations) = 2

(* a search of judge_move is answered in this step *)
SearchStep == pc \in {"search1", "search2"} /\ searches' = searches + 1

(* C15: a response with neither a mate score nor a centipawn score    *)
(* aborts the run at that judgment: the judgment gets no evaluation   *)
(* and no comment from it, judge_move does not return, the tree stays *)
(* as it is, and no step follows the abort: the game is not emitted.  *)
C15_NoScoreAborts ==
    /\ [][(SearchStep /\ ~HasScore(info')) =>
              /\ pc' = "aborted"
              /\ tree' = tree
              /\ judgment'.besteval = judgment.besteval
              /\ judgment'.playedeval = judgment.playedeval
              /\ judgment'.bestcomment = judgment.bestcomment
              /\ judgment'.playedcomment = judgment.playedcomment]_vars
    /\ [][pc # "aborted"]_vars

(* the second move from the end is being judged, after the last move  *)
(* was annotated, and its second search came back without a score     *)
C15_Witness ==
    /\ pc = "aborted"
    /\ searches = 2
    /\ ~HasScore(info)
    /\ Len(judged) = 2
    /\ Len(tree[tree[Final].parent].variations) > 1

RECURSIVE MainLineSeq(_, _)
(* the nodes reached from n by following the main child, in order *)
MainLineSeq(t, n) ==
    IF t[n].variations = <<>> THEN <<n>>
    ELSE <<n>> \o MainLineSeq(t, t[n].variations[1])

(* the root is nobody's child; every other node is a child once, of *)
(* the node it names as its parent: every child names the node that *)
(* lists it, no node lists a child twice, and every node but the    *)
(* root is listed by its parent                                     *)
OneParent(t) ==
    /\ t[Root].parent = NoNode
    /\ \A p \in 1..Len(t) :
          LET vs == t[p].variations
          IN  \A i \in 1..Len(vs) :
                /\ t[vs[i]].parent = p
                /\ \A k \in 1..(i - 1) : vs[k] # vs[i]
    /\ \A n \in 2..Len(t) :
          \E i \in 1..Len(t[t[n].parent].variations) :
              t[t[n].parent].variations[i] = n

Children(t, n) == {t[n].variations[i] : i \in 1..Len(t[n].variations)}

(* C16: every step of the walk, add_annotation on the final node      *)
(* included, keeps the main line from the root: the same nodes in the *)
(* same order with the same moves; it removes no child of any node,   *)
(* and every node but the root stays the child of exactly one parent. *)
C16_MainLineKept ==
    /\ [](OneParent(tree))
    /\ [][/\ MainLineSeq(tree', Root) = MainLineSeq(tree, Root)
          /\ \A n \in 1..Len(tree) :
                /\ tree'[n].move = tree[n].move
                /\ tree'[n].parent = tree[n].parent
                /\ Children(tree, n) \subseteq Children(tree', n)]_vars

(* a game of two moves emitted with both moves annotated: the main    *)
(* line is the input's, and each of its two parents has a side branch *)
C16_Witness ==
    /\ pc = "done"
    /\ MainLineSeq(tree, Root) = <<1, 2, 3>>
    /\ Len(tree[1].variations) > 1
    /\ Len(tree[2].variations) > 1
    /\ tree[1].variations[1] = 2
    /\ tree[2].variations[1] = 3

RECURSIVE PathMoves(_, _, _)
(* the moves on the way from below prev down to the node v *)
PathMoves(t, v, prev) ==
    IF v = prev THEN <<>>
    ELSE Append(PathMoves(t, t[v].parent, prev), t[v].move)

RECURSIVE IsChain(_, _, _)
(* from below prev down to v every node has the next as its only *)
(* child, and v has none                                         *)
IsChain(t, v, prev) ==
    \/ v = prev
    \/ /\ IsChain(t, t[v].parent, prev)
       /\ t[v].parent # prev => t[t[v].parent].variations = <<v>>

RECURSIVE DropRepeats(_)
(* the sequence with every entry equal to the one before it left out *)
DropRepeats(s) ==
    IF Len(s) <= 1 THEN s
    ELSE LET front == DropRepeats(SubSeq(s, 1, Len(s) - 1))
         IN  IF s[Len(s)] = s[Len(s) - 1] THEN front
             ELSE Append(front, s[Len(s)])

(* pv[:searchdepth // 2] *)
FirstHalfDepth == SubSeq(judgment.pv, 1, Min(depth \div 2, Len(judgment.pv)))

(* add_annotation runs on a PV that begins with the best move, with a *)
(* depth of two or more                                               *)
PvFromBestStep ==
    /\ AnnotateStep
    /\ judgment.pv[1] = judgment.bestmove
    /\ depth \div 2 >= 1

(* the inserted branch is one chain that plays the given moves *)
BranchPlays(moves) ==
    /\ PathMoves(tree', var_node', tree[node].parent) = moves
    /\ IsChain(tree', var_node', tree[node].parent)
    /\ tree'[var_node'].variations = <<>>
    /\ Inserted = Len(moves)

C18_CommentAndNags ==
    [][AnnotateStep =>
          /\ tree'[node].comment =
                 IF judgment.bestmove # tree[node].move
                 THEN judgment.playedcomment
                 ELSE tree[node].comment
          /\ tree'[node].nags = get_nags(judgment)
          /\ tree'[node].nags \in {<<>>, <<NAG_BLUNDER>>, <<NAG_MISTAKE>>,
                                   <<NAG_DUBIOUS_MOVE>>}]_vars

(* the final node was annotated with its own move as the best move:   *)
(* its comment is still the input's, and it has no glyph              *)
C18_Witness ==
    /\ Annotated
    /\ caller = "final"
    /\ tree[tree[tree[node].parent].variations[2]].move = tree[node].move
    /\ tree[node].comment = ""
    /\ tree[node].nags = <<>>

(* C19: in the loop add_annotation never runs on a judgment whose     *)
(* best move is the node's move; every node annotated in the loop     *)
(* gets the played move's comment, and the branch put under its       *)
(* parent begins with a move other than the played one.               *)
C19_LoopBestDiffers ==
    [][(AnnotateStep /\ caller = "loop") =>
          /\ judgment.bestmove # tree[node].move
          /\ Delta < -50
          /\ tree'[node].comment = judgment.playedcomment
          /\ tree'[BranchHead(tree', var_node', tree[node].parent)].move
                 # tree[node].move]_vars

(* a node of the loop has been annotated: it has a comment, and the   *)
(* branch beside it begins with another move                          *)
C19_Witness ==
    /\ Annotated
    /\ caller = "loop"
    /\ node # Final
    /\ tree[node].comment # ""
    /\ tree[BranchHead(tree, var_node, tree[node].parent)].move
           # tree[node].move

(* the game has no move: the root has no child *)
ZeroMoves == tree[Root].variations = <<>>

(* C20: on a game with no move the walk does not reach its end: the   *)
(* final-position step finds no parent of the root and the run aborts *)
(* before any engine search, with the root not given the comment      *)
(* naming the engine and the game not emitted.                        *)
C20_ZeroMovesAborts ==
    /\ [](ZeroMoves =>
            /\ pc \in {"final", "loop", "aborted"}
            /\ searches = 0 /\ judged = <<>> /\ ~HasScore(info)
            /\ tree[Root].comment # RootComment
            /\ pc = "final" => node = Root
            /\ pc = "loop" => node = NoNode)
    /\ [][ZeroMoves =>
            \/ pc = "final" /\ ~is_game_over(pos) /\ pc' = "aborted"
            \/ pc = "final" /\ is_game_over(pos) /\ pc' = "loop"
            \/ pc = "loop" /\ pc' = "aborted"]_vars

(* a game with no move from a position that is not over: aborted at   *)
(* the root                                                           *)
C20_Witness ==
    /\ pc = "aborted"
    /\ ZeroMoves
    /\ node = Root
    /\ pos = {}
    /\ searches = 0

====
